---- MODULE Spec2Model ----
(***************************************************************************)
(* Model of playlist_generator.py: the quota-constrained sampling loop     *)
(* generate_tracks_for_playlist, the text classifiers it uses, the         *)
(* candidate source it samples, and main with process_playlist, which run  *)
(* it for every tier of PLAYLISTS.                                         *)
(*                                                                         *)
(* Text is modelled as it is in Python: a string is a sequence of          *)
(* characters.  A character is a one-element token; the tokens with a long *)
(* name ("alef", "ka_deva", ...) stand for one non-ASCII character each,   *)
(* and CodePoint gives the Unicode code point the source compares.         *)
(*                                                                         *)
(* A fraction such as HEBREW_PERCENT = 0.30 is held in hundredths (30).    *)
(* The values used here are ones for which the floating-point product      *)
(* TRACK_COUNT * fraction truncates and rounds as the exact product does.  *)
(***************************************************************************)
EXTENDS Integers, Sequences, FiniteSets, TLC

(***************************************************************************)
(* Bounds of the model.                                                    *)
(***************************************************************************)
MaxTrackCount == 4      \* TRACK_COUNT ranges over 1..MaxTrackCount
MaxBatch == 2           \* a search returns at most MaxBatch candidates

(***************************************************************************)
(* Python values.                                                          *)
(***************************************************************************)
\* None, for the optional numbers (a follower bound, a popularity, a
\* follower total); every number of the program is non-negative.
None == -1

\* int(x) for the non-negative quotient num / den: truncation.
PyInt(num, den) == num \div den

\* round(x) for the non-negative quotient num / den: to nearest, ties to even.
PyRound(num, den) ==
    LET q == num \div den
        r == num % den
    IN  IF 2 * r < den THEN q
        ELSE IF 2 * r > den THEN q + 1
        ELSE IF q % 2 = 0 THEN q ELSE q + 1

(***************************************************************************)
(* Characters and strings.                                                 *)
(***************************************************************************)
CodePoint ==
    "a" :> 97 @@ "b" :> 98 @@ "c" :> 99 @@ "d" :> 100 @@ "e" :> 101 @@ "f" :> 102 @@
    "g" :> 103 @@ "h" :> 104 @@ "i" :> 105 @@ "j" :> 106 @@ "k" :> 107 @@ "l" :> 108 @@
    "m" :> 109 @@ "n" :> 110 @@ "o" :> 111 @@ "p" :> 112 @@ "q" :> 113 @@ "r" :> 114 @@
    "s" :> 115 @@ "t" :> 116 @@ "u" :> 117 @@ "v" :> 118 @@ "w" :> 119 @@ "x" :> 120 @@
    "y" :> 121 @@ "z" :> 122 @@ "A" :> 65 @@ "B" :> 66 @@ "C" :> 67 @@ "D" :> 68 @@
    "E" :> 69 @@ "F" :> 70 @@ "G" :> 71 @@ "H" :> 72 @@ "I" :> 73 @@ "J" :> 74 @@
    "K" :> 75 @@ "L" :> 76 @@ "M" :> 77 @@ "N" :> 78 @@ "O" :> 79 @@ "P" :> 80 @@
    "Q" :> 81 @@ "R" :> 82 @@ "S" :> 83 @@ "T" :> 84 @@ "U" :> 85 @@ "V" :> 86 @@
    "W" :> 87 @@ "X" :> 88 @@ "Y" :> 89 @@ "Z" :> 90 @@ "0" :> 48 @@ "2" :> 50 @@
    "3" :> 51 @@ "4" :> 52 @@ " " :> 32 @@ "(" :> 40 @@ ")" :> 41 @@
    \* Hebrew block U+0590..U+05FF
    "alef" :> 1488 @@ "bet" :> 1489 @@ "gimel" :> 1490 @@ "dalet" :> 1491 @@
    "he" :> 1492 @@ "vav" :> 1493 @@ "zayin" :> 1494 @@ "het" :> 1495 @@
    "tet" :> 1496 @@ "yod" :> 1497 @@ "kaf" :> 1499 @@ "lamed" :> 1500 @@
    "final_mem" :> 1501 @@ "mem" :> 1502 @@ "nun" :> 1504 @@ "samekh" :> 1505 @@
    "ayin" :> 1506 @@ "pe" :> 1508 @@ "tsadi" :> 1510 @@ "qof" :> 1511 @@
    "resh" :> 1512 @@ "shin" :> 1513 @@ "tav" :> 1514 @@
    \* Devanagari KA (U+0915), Tamil KA (U+0B95)
    "ka_deva" :> 2325 @@ "ka_tamil" :> 2965

UpperToLower ==
    "A" :> "a" @@ "B" :> "b" @@ "C" :> "c" @@ "D" :> "d" @@ "E" :> "e" @@ "F" :> "f" @@
    "G" :> "g" @@ "H" :> "h" @@ "I" :> "i" @@ "J" :> "j" @@ "K" :> "k" @@ "L" :> "l" @@
    "M" :> "m" @@ "N" :> "n" @@ "O" :> "o" @@ "P" :> "p" @@ "Q" :> "q" @@ "R" :> "r" @@
    "S" :> "s" @@ "T" :> "t" @@ "U" :> "u" @@ "V" :> "v" @@ "W" :> "w" @@ "X" :> "x" @@
    "Y" :> "y" @@ "Z" :> "z"

\* str.lower()
Lower(s) ==
    [k \in 1..Len(s) |-> IF s[k] \in DOMAIN UpperToLower THEN UpperToLower[s[k]] ELSE s[k]]

IsSpace(ch) == ch = " "

\* str.strip(): drop the leading and the trailing whitespace
Strip(s) ==
    LET nonSpace == {k \in 1..Len(s) : ~IsSpace(s[k])}
    IN  IF nonSpace = {} THEN <<>>
        ELSE LET lo == CHOOSE k \in nonSpace : \A m \in nonSpace : k <= m
                 hi == CHOOSE k \in nonSpace : \A m \in nonSpace : k >= m
             IN  SubSeq(s, lo, hi)

\* sub in s
Contains(s, sub) ==
    \E k \in 0..(Len(s) - Len(sub)) : SubSeq(s, k + 1, k + Len(sub)) = sub

\* " ".join(list)
RECURSIVE JoinSpace(_)
JoinSpace(list) ==
    IF list = <<>> THEN <<>>
    ELSE IF Len(list) = 1 THEN list[1]
    ELSE list[1] \o <<" ">> \o JoinSpace(Tail(list))

(***************************************************************************)
(* User configuration: the module-level settings of the program.  The      *)
(* settings a run can be configured with are variables fixed by Init;      *)
(* the others are the constants of the source.                             *)
(***************************************************************************)
VARIABLES
    TRACK_COUNT,            \* total tracks per tier (source default 50)
    HEBREW_PERCENT,         \* target-language fraction, in hundredths (30)
    MAX_INDIAN_PERCENT,     \* regional cap fraction, in hundredths (6)
    FILTER_LIVE, FILTER_REMIX, FILTER_KARAOKE

MAX_SONGS_PER_ARTIST == 3
KNOWN_MIN_TRACK_POPULARITY == 55
FAMOUS_MIN_TRACK_POPULARITY == 70
MAINSTREAM_MIN_FOLLOWERS == 50000
FAMOUS_MIN_FOLLOWERS == 500000
UNKNOWN_FOLLOWERS == 999999
ARTISTS_LIMIT == 50

MARKET_DEFAULT == "IL"
MARKET_MAINSTREAM == "US"

PLAYLISTS == <<
    [name |-> "Random Songs (unknown artists)", max |-> 200,    min |-> 0],
    [name |-> "Random Songs (tiny artists)",    max |-> 1000,   min |-> 200],
    [name |-> "Random Songs (small artists)",   max |-> 10000,  min |-> 1000],
    [name |-> "Random Songs (medium artists)",  max |-> 50000,  min |-> 10000],
    [name |-> "Random Songs (known artists)",   max |-> 500000, min |-> 50000],
    [name |-> "Random Songs (famous artists)",  max |-> None,   min |-> 500000] >>

(***************************************************************************)
(* Seeds.                                                                  *)
(***************************************************************************)
HEB_LETTERS == {
    <<"alef">>, <<"bet">>, <<"gimel">>, <<"dalet">>, <<"he">>, <<"vav">>,
    <<"zayin">>, <<"het">>, <<"tet">>, <<"yod">>, <<"kaf">>, <<"lamed">>,
    <<"mem">>, <<"nun">>, <<"samekh">>, <<"ayin">>, <<"pe">>, <<"tsadi">>,
    <<"qof">>, <<"resh">>, <<"shin">>, <<"tav">> }

HEB_BIGRAMS == {
    <<"shin", "lamed">>, <<"alef", "tav">>, <<"yod", "final_mem">>,
    <<"alef", "he">>, <<"yod", "vav">>, <<"lamed", "yod">> }

HEBREW_SEEDS == HEB_LETTERS \cup HEB_BIGRAMS

OBSCURE_SEEDS == {
    <<"q", "z">>, <<"z", "x", "q">>, <<"z", "z", "x">>, <<"q", "x", "x">>,
    <<"z", "q", "q">>, <<"k", "j", "j">>, <<"p", "t", "k">>, <<"x", "h", "z">>,
    <<"v", "q", "x">>, <<"z", "z", "q">>, <<"t", "z", "z">>, <<"x", "x", "a">>,
    <<"m", "q", "q">>, <<"q", "v", "v">>, <<"z", "z", "p">> }

MAINSTREAM_SEEDS == {
    <<"a">>, <<"e">>, <<"i">>, <<"o">>, <<"u">>,
    <<"l", "o", "v", "e">>, <<"y", "o", "u">>, <<"t", "h", "e">>, <<"f", "e", "a", "t">>,
    <<"2", "0", "2", "4">>, <<"2", "0", "2", "3">>, <<"2", "0", "2", "2">>,
    <<"r", "e", "m">>, <<"v", "e", "r">>, <<"m", "i", "x">> }

\* pick_seed with the mainstream and the obscure pool exchanged
pick_seed_swapped(require_hebrew, mainstream) ==
    IF require_hebrew THEN HEBREW_SEEDS
    ELSE IF mainstream THEN OBSCURE_SEEDS ELSE MAINSTREAM_SEEDS

\* random.choice: the set of seeds a call can return
pick_seed(require_hebrew, mainstream) ==
    IF require_hebrew THEN HEBREW_SEEDS
    ELSE IF mainstream THEN MAINSTREAM_SEEDS ELSE OBSCURE_SEEDS

(***************************************************************************)
(* Diversity / filter helpers.                                             *)
(***************************************************************************)
is_hebrew_text(text) ==
    \E k \in 1..Len(text) : 1424 <= CodePoint[text[k]] /\ CodePoint[text[k]] <= 1535

\* is_hebrew_track looking at the title alone
is_hebrew_track_title_only(track) == is_hebrew_text(track.name)

is_hebrew_track(track) ==
    \/ is_hebrew_text(track.name)
    \/ is_hebrew_text(track.album)
    \/ \E k \in 1..Len(track.artists) : is_hebrew_text(track.artists[k].name)

\* is_bad_version without lower()
is_bad_version_case_sensitive(name) ==
    LET n == name
    IN  \/ FILTER_LIVE /\ ( \/ Contains(n, <<" ", "l", "i", "v", "e">>)
                            \/ Contains(n, <<"(", "l", "i", "v", "e">>)
                            \/ Contains(n, <<"s", "e", "s", "s", "i", "o", "n">>) )
        \/ FILTER_REMIX /\ ( \/ Contains(n, <<"r", "e", "m", "i", "x">>)
                             \/ Contains(n, <<" ", "m", "i", "x">>)
                             \/ Contains(n, <<"(", "m", "i", "x">>) )
        \/ FILTER_KARAOKE /\ ( \/ Contains(n, <<"k", "a", "r", "a", "o", "k", "e">>)
                               \/ Contains(n, <<"i", "n", "s", "t", "r", "u", "m", "e", "n", "t", "a", "l">>) )

is_bad_version(name) ==
    LET n == Lower(name)
    IN  \/ FILTER_LIVE /\ ( \/ Contains(n, <<" ", "l", "i", "v", "e">>)
                            \/ Contains(n, <<"(", "l", "i", "v", "e">>)
                            \/ Contains(n, <<"s", "e", "s", "s", "i", "o", "n">>) )
        \/ FILTER_REMIX /\ ( \/ Contains(n, <<"r", "e", "m", "i", "x">>)
                             \/ Contains(n, <<" ", "m", "i", "x">>)
                             \/ Contains(n, <<"(", "m", "i", "x">>) )
        \/ FILTER_KARAOKE /\ ( \/ Contains(n, <<"k", "a", "r", "a", "o", "k", "e">>)
                               \/ Contains(n, <<"i", "n", "s", "t", "r", "u", "m", "e", "n", "t", "a", "l">>) )

INDIAN_GENRE_KEYWORDS == {
    <<"b", "o", "l", "l", "y", "w", "o", "o", "d">>, <<"d", "e", "s", "i">>,
    <<"i", "n", "d", "i", "a", "n">>, <<"f", "i", "l", "m", "i">>,
    <<"t", "o", "l", "l", "y", "w", "o", "o", "d">>, <<"p", "u", "n", "j", "a", "b", "i">>,
    <<"b", "h", "a", "n", "g", "r", "a">>, <<"t", "a", "m", "i", "l">>,
    <<"t", "e", "l", "u", "g", "u">>, <<"m", "a", "l", "a", "y", "a", "l", "a", "m">>,
    <<"k", "a", "n", "n", "a", "d", "a">>, <<"b", "e", "n", "g", "a", "l", "i">>,
    <<"g", "u", "j", "a", "r", "a", "t", "i">>, <<"h", "i", "n", "d", "i">>,
    <<"u", "r", "d", "u">> }

InRange(cp, lo, hi) == lo <= cp /\ cp <= hi

has_indic_script(text) ==
    \E k \in 1..Len(text) :
        LET cp == CodePoint[text[k]]
        IN  \/ InRange(cp, 2304, 2431)      \* U+0900..U+097F Devanagari
            \/ InRange(cp, 2432, 2559)      \* U+0980..U+09FF Bengali
            \/ InRange(cp, 2560, 2687)      \* U+0A00..U+0A7F Gurmukhi
            \/ InRange(cp, 2688, 2815)      \* U+0A80..U+0AFF Gujarati
            \/ InRange(cp, 2944, 3071)      \* U+0B80..U+0BFF Tamil
            \/ InRange(cp, 3072, 3199)      \* U+0C00..U+0C7F Telugu
            \/ InRange(cp, 3200, 3327)      \* U+0C80..U+0CFF Kannada
            \/ InRange(cp, 3328, 3455)      \* U+0D00..U+0D7F Malayalam

is_indian_track(track, artist_obj) ==
    \/ has_indic_script(track.name)
    \/ has_indic_script(track.album)
    \/ has_indic_script(artist_obj.name)
    \/ LET genres == Lower(JoinSpace(artist_obj.genres))
       IN  \E k \in INDIAN_GENRE_KEYWORDS : Contains(genres, k)

(***************************************************************************)
(* The catalog behind the candidate source.  A track is what sp.search     *)
(* returns for it: uri, name, album name, artists (the first is the        *)
(* primary artist) and popularity; a track is immutable.                   *)
(***************************************************************************)
Track(uri, name, album, artists, popularity) ==
    [present |-> TRUE, uri |-> uri, name |-> name, album |-> album,
     artists |-> artists, popularity |-> popularity]

Hits == <<"H", "i", "t", "s">>
Ann == [id |-> "A1", name |-> <<"A", "n", "n">>]
Bob == [id |-> "A2", name |-> <<"B", "o", "b">>]
Gal == [id |-> "A4", name |-> <<"gimel", "lamed">>]
Zed == [id |-> "A5", name |-> <<"Z", "e", "d">>]
Cy == [id |-> "A6", name |-> <<"C", "y">>]
Dee == [id |-> "A7", name |-> <<"D", "e", "e">>]
Eve == [id |-> "A8", name |-> <<"E", "v", "e">>]

\* "Song" and " song " by the same artist: two catalog entries of one song
Song == Track("u1", <<"S", "o", "n", "g">>, Hits, <<Ann>>, 80)
SongAgain ==
    Track("u2", <<" ", "s", "o", "n", "g", " ">>, <<"ka_tamil">>, <<Ann>>, 70)
\* "Mixtape Alive" has "mix" and "live" inside, neither after a space or "("
Mixtape ==
    Track("u3", <<"M", "i", "x", "t", "a", "p", "e", " ", "A", "l", "i", "v", "e">>,
          Hits, <<Ann>>, 54)
Raga == Track("u4", <<"ka_deva">>, Hits, <<Ann>>, None)
Shir == Track("u5", <<"shin", "yod", "resh">>, Hits, <<Ann>>, 80)
Tune == Track("u6", <<"T", "u", "n", "e">>, Hits, <<Bob>>, 69)
Zemer == Track("u7", <<"T", "u", "n", "e">>, Hits, <<Gal>>, 80)
Stray == Track("u8", <<"T", "u", "n", "e">>, Hits, <<Zed>>, 90)
Live ==
    Track("u9", <<"S", "o", "n", "g", " ", "(", "L", "i", "v", "e", " ", "a", "t",
                  " ", "A", "r", "e", "n", "a", ")">>, Hits, <<Ann>>, 80)
Remix ==
    Track("u10", <<"T", "u", "n", "e", " ", "R", "E", "M", "I", "X">>, Hits, <<Ann>>, 80)
Karaoke ==
    Track("u11", <<"K", "a", "r", "a", "o", "k", "e", " ", "N", "i", "g", "h", "t">>,
          Hits, <<Ann>>, 80)
Blank == Track("u12", <<" ", " ">>, Hits, <<Ann>>, 80)

Mid == Track("u16", <<"M", "i", "d">>, Hits, <<Cy>>, 60)
Star == Track("u17", <<"S", "t", "a", "r">>, Hits, <<Dee>>, 80)
\* Target-language text in the album title only, and in the name of the
\* second artist only.
AlbumShir ==
    Track("u18", <<"S", "t", "a", "r">>, <<"shin", "yod", "resh">>, <<Bob>>, 80)
Duet == Track("u19", <<"D", "u", "e", "t">>, Hits, <<Bob, Gal>>, 80)
\* Popularities at and just below the two floors, and none.
Low == Track("u20", <<"L", "o", "w">>, Hits, <<Dee>>, 54)
Known == Track("u21", <<"K", "n", "o", "w", "n">>, Hits, <<Dee>>, 55)
Almost == Track("u22", <<"A", "l", "m", "o", "s", "t">>, Hits, <<Dee>>, 69)
Famous == Track("u23", <<"F", "a", "m", "o", "u", "s">>, Hits, <<Eve>>, 70)
Unrated == Track("u24", <<"U", "n", "r", "a", "t", "e", "d">>, Hits, <<Eve>>, None)

\* Entries with a required field missing: a null entry, a track without
\* artists, a track without uri, a primary artist whose id is null, and a
\* primary artist object without an "id" key.
Null == [present |-> FALSE]
Anon == [id |-> "", name |-> <<"A", "n", "n">>]
Keyless == [name |-> <<"A", "n", "n">>]
NoArtists == Track("u13", <<"T", "u", "n", "e">>, Hits, <<>>, 80)
NoUri == Track("", <<"T", "u", "n", "e">>, Hits, <<Ann>>, 80)
AnonTune == Track("u14", <<"T", "u", "n", "e">>, Hits, <<Anon>>, 80)
KeylessTune == Track("u15", <<"T", "u", "n", "e">>, Hits, <<Keyless>>, 80)

\* Tracks of artists across the follower bands, in both languages.
CATALOG == {Song, Shir, Tune, Zemer, Stray}
\* Tracks of one artist: a near-duplicate pair, two regional-flagged tracks.
ONE_ARTIST_CATALOG == {Song, SongAgain, Mixtape, Raga, Shir}
\* Titles with and without the markers of is_bad_version.
TITLES_CATALOG == {Live, Remix, Karaoke, Blank, Mixtape}
\* Two artists of the "tiny artists" band, in both languages.
FAIR_CATALOG == {Song, Shir, Tune}
\* A sound track among entries with a required field missing.
DEFECTS_CATALOG == {Song, Null, NoArtists, NoUri, Blank, AnonTune, KeylessTune}
\* Target-language text in each of the places is_hebrew_track looks at, and
\* in none.
LANGUAGE_CATALOG == {Song, Tune, Shir, AlbumShir, Duet}
\* Tracks of two artists with 500000 followers, the bound shared by the
\* "known" and the "famous" tier.
POPULARITY_CATALOG == {Low, Known, Almost, Famous, Unrated}
\* One track for every tier of PLAYLISTS (each artist sits on the bound
\* between two tiers), a second one for none.
MAIN_CATALOG == {Song, Mid, Star}

\* What sp.artists returns for an artist id; an id it does not know is
\* missing from the response.  followers = None: no "followers" object.
ARTIST_DIRECTORY ==
    "A1" :> [followers |-> 200, genres |-> <<>>, name |-> <<"A", "n", "n">>] @@
    "A2" :> [followers |-> 1000, genres |-> <<>>, name |-> <<"B", "o", "b">>] @@
    "A4" :> [followers |-> None, genres |-> <<>>, name |-> <<"gimel", "lamed">>] @@
    "A6" :> [followers |-> 10000, genres |-> <<>>, name |-> <<"C", "y">>] @@
    "A7" :> [followers |-> 500000, genres |-> <<>>, name |-> <<"D", "e", "e">>] @@
    "A8" :> [followers |-> 500000, genres |-> <<>>, name |-> <<"E", "v", "e">>]

\* The follower bands generate_tracks_for_playlist is called with: the tiers
\* of PLAYLISTS, and the open band (min 0, no max).
Bands ==
    {[max |-> PLAYLISTS[k].max, min |-> PLAYLISTS[k].min] : k \in 1..Len(PLAYLISTS)}
        \cup {[max |-> None, min |-> 0]}

HebrewPercents == {30, 50}
IndianPercents == {6, 50}

(***************************************************************************)
(* State of main and process_playlist, and of the playlists they manage.   *)
(***************************************************************************)
VARIABLES
    timestamp,              \* main's timestamp string
    tier,                   \* position of main's loop in PLAYLISTS; 0 when
                            \* generate_tracks_for_playlist is run on its own
    step,                   \* process_playlist is about to: "find", "clear",
                            \* "generate", "add", "describe"; "finished":
                            \* main has returned
    playlists               \* the user's playlist of each tier

process == <<timestamp, tier, step, playlists>>

(***************************************************************************)
(* State of one generate_tracks_for_playlist run.                          *)
(***************************************************************************)
VARIABLES
    catalog,                \* the tracks sp.search can return
    max_followers, min_followers,
    hebrew_tracks, global_tracks,
    artist_counts, seen_uris, seen_artist_title,
    indian_count,
    pc,                     \* "idle": not called yet;
                            \* "loop", "search", "fetch", "scan", "done";
                            \* "error": an exception left the function
    seed, batch, artist_map,
    idx,                    \* position of `track` in `for track in batch`
    final_tracks

config == <<TRACK_COUNT, HEBREW_PERCENT, MAX_INDIAN_PERCENT,
            FILTER_LIVE, FILTER_REMIX, FILTER_KARAOKE,
            catalog, max_followers, min_followers>>
generator == <<hebrew_tracks, global_tracks, artist_counts, seen_uris,
               seen_artist_title, indian_count>>
vars == <<process, config, generator, pc, seed, batch, artist_map, idx,
          final_tracks>>

\* hebrew_needed with round() for int()
hebrew_needed_rounded == PyRound(TRACK_COUNT * HEBREW_PERCENT, 100)
hebrew_needed == PyInt(TRACK_COUNT * HEBREW_PERCENT, 100)
global_needed == TRACK_COUNT - hebrew_needed
max_indian == PyInt(TRACK_COUNT * MAX_INDIAN_PERCENT, 100)

mainstream_mode == min_followers # None /\ min_followers >= MAINSTREAM_MIN_FOLLOWERS
market == IF mainstream_mode THEN MARKET_MAINSTREAM ELSE MARKET_DEFAULT

\* min_popularity with the two floors exchanged
min_popularity_swapped ==
    IF mainstream_mode
    THEN IF min_followers # None /\ min_followers # 0
            /\ min_followers >= FAMOUS_MIN_FOLLOWERS
         THEN KNOWN_MIN_TRACK_POPULARITY
         ELSE FAMOUS_MIN_TRACK_POPULARITY
    ELSE None

\* `min_followers and ...`: 0 and None are both falsy
min_popularity ==
    IF mainstream_mode
    THEN IF min_followers # None /\ min_followers # 0
            /\ min_followers >= FAMOUS_MIN_FOLLOWERS
         THEN FAMOUS_MIN_TRACK_POPULARITY
         ELSE KNOWN_MIN_TRACK_POPULARITY
    ELSE None

BucketsFull ==
    Len(hebrew_tracks) >= hebrew_needed /\ Len(global_tracks) >= global_needed

\* generate_tracks_for_playlist run on its own, outside main.
Standalone ==
    /\ timestamp = <<>>
    /\ tier = 0
    /\ step = "generate"
    /\ playlists = <<>>

GeneratorInit ==
    /\ hebrew_tracks = <<>>
    /\ global_tracks = <<>>
    /\ artist_counts = <<>>
    /\ seen_uris = {}
    /\ seen_artist_title = {}
    /\ indian_count = 0
    /\ pc = "loop"
    /\ seed = <<>>
    /\ batch = <<>>
    /\ artist_map = <<>>
    /\ idx = 0
    /\ final_tracks = <<>>

\* The tiers and the open band, every TRACK_COUNT up to the bound, two
\* target-language fractions; the other settings as in the source.
Init ==
    /\ TRACK_COUNT \in 1..MaxTrackCount
    /\ HEBREW_PERCENT \in HebrewPercents
    /\ MAX_INDIAN_PERCENT = 6
    /\ FILTER_LIVE = TRUE
    /\ FILTER_REMIX = TRUE
    /\ FILTER_KARAOKE = TRUE
    /\ catalog = CATALOG
    /\ \E band \in Bands :
          /\ max_followers = band.max
          /\ min_followers = band.min
    /\ Standalone
    /\ GeneratorInit

\* The "tiny artists" tier over the tracks of one artist, with two
\* regional cap fractions.
InitOneArtist ==
    /\ TRACK_COUNT \in 1..MaxTrackCount
    /\ HEBREW_PERCENT = 30
    /\ MAX_INDIAN_PERCENT \in IndianPercents
    /\ FILTER_LIVE = TRUE
    /\ FILTER_REMIX = TRUE
    /\ FILTER_KARAOKE = TRUE
    /\ catalog = ONE_ARTIST_CATALOG
    /\ max_followers = PLAYLISTS[2].max
    /\ min_followers = PLAYLISTS[2].min
    /\ Standalone
    /\ GeneratorInit

\* The "tiny artists" tier over the marked titles, with every setting of
\* the three switches.
InitTitles ==
    /\ TRACK_COUNT = 2
    /\ HEBREW_PERCENT = 30
    /\ MAX_INDIAN_PERCENT = 6
    /\ FILTER_LIVE \in BOOLEAN
    /\ FILTER_REMIX \in BOOLEAN
    /\ FILTER_KARAOKE \in BOOLEAN
    /\ catalog = TITLES_CATALOG
    /\ max_followers = PLAYLISTS[2].max
    /\ min_followers = PLAYLISTS[2].min
    /\ Standalone
    /\ GeneratorInit

\* The "tiny artists" tier over tracks of two artists of its band.
InitFair ==
    /\ TRACK_COUNT \in 1..MaxTrackCount
    /\ HEBREW_PERCENT = 30
    /\ MAX_INDIAN_PERCENT = 6
    /\ FILTER_LIVE = TRUE
    /\ FILTER_REMIX = TRUE
    /\ FILTER_KARAOKE = TRUE
    /\ catalog = FAIR_CATALOG
    /\ max_followers = PLAYLISTS[2].max
    /\ min_followers = PLAYLISTS[2].min
    /\ Standalone
    /\ GeneratorInit

\* The open band over the tracks of LANGUAGE_CATALOG.
InitLanguage ==
    /\ TRACK_COUNT \in 1..MaxTrackCount
    /\ HEBREW_PERCENT \in HebrewPercents
    /\ MAX_INDIAN_PERCENT = 6
    /\ FILTER_LIVE = TRUE
    /\ FILTER_REMIX = TRUE
    /\ FILTER_KARAOKE = TRUE
    /\ catalog = LANGUAGE_CATALOG
    /\ max_followers = None
    /\ min_followers = 0
    /\ Standalone
    /\ GeneratorInit

\* The "known" tier, the "famous" tier and the open band over the tracks of
\* POPULARITY_CATALOG.
InitPopularity ==
    /\ TRACK_COUNT \in 1..MaxTrackCount
    /\ HEBREW_PERCENT = 30
    /\ MAX_INDIAN_PERCENT = 6
    /\ FILTER_LIVE = TRUE
    /\ FILTER_REMIX = TRUE
    /\ FILTER_KARAOKE = TRUE
    /\ catalog = POPULARITY_CATALOG
    /\ \E band \in {[max |-> PLAYLISTS[k].max, min |-> PLAYLISTS[k].min] : k \in {5, 6}}
                     \cup {[max |-> None, min |-> 0]} :
          /\ max_followers = band.max
          /\ min_followers = band.min
    /\ Standalone
    /\ GeneratorInit

\* The "tiny artists" tier over a sound track and the defective entries.
InitDefects ==
    /\ TRACK_COUNT \in 1..2
    /\ HEBREW_PERCENT = 30
    /\ MAX_INDIAN_PERCENT = 6
    /\ FILTER_LIVE = TRUE
    /\ FILTER_REMIX = TRUE
    /\ FILTER_KARAOKE = TRUE
    /\ catalog = DEFECTS_CATALOG
    /\ max_followers = PLAYLISTS[2].max
    /\ min_followers = PLAYLISTS[2].min
    /\ Standalone
    /\ GeneratorInit

(***************************************************************************)
(* The candidate source.                                                   *)
(***************************************************************************)
\* The results batch_search_tracks can return: any list of at most MaxBatch
\* catalog entries, repeats included, or the empty list.
batch_search_tracks == UNION {[1..n -> catalog] : n \in 0..MaxBatch}

\* Line 255 subscripts the primary artist with ["id"]: an artist object
\* without that key raises KeyError.
PrimaryArtistIdRaises(tracks) ==
    \E k \in 1..Len(tracks) :
        /\ tracks[k].present
        /\ tracks[k].artists # <<>>
        /\ "id" \notin DOMAIN tracks[k].artists[1]

\* artist_ids of line 255: the primary artist id of every usable entry
RECURSIVE PrimaryArtistIds(_)
PrimaryArtistIds(tracks) ==
    IF tracks = <<>> THEN <<>>
    ELSE LET t == Head(tracks)
             rest == PrimaryArtistIds(Tail(tracks))
         IN  IF t.present /\ t.artists # <<>> THEN <<t.artists[1].id>> \o rest ELSE rest

\* De-duplication loop of batch_fetch_artist_info: the first ARTISTS_LIMIT
\* distinct non-empty ids, in order.
RECURSIVE Uniq(_, _)
Uniq(artist_ids, uniq) ==
    IF artist_ids = <<>> THEN uniq
    ELSE LET aid == Head(artist_ids)
             next == IF aid # "" /\ aid \notin {uniq[k] : k \in 1..Len(uniq)}
                     THEN Append(uniq, aid) ELSE uniq
         IN  IF Len(next) >= ARTISTS_LIMIT THEN next ELSE Uniq(Tail(artist_ids), next)

batch_fetch_artist_info(artist_ids) ==
    LET uniq == Uniq(artist_ids, <<>>)
        returned == {uniq[k] : k \in 1..Len(uniq)} \cap DOMAIN ARTIST_DIRECTORY
    IN  [a \in returned |->
            [followers |-> IF ARTIST_DIRECTORY[a].followers = None
                           THEN UNKNOWN_FOLLOWERS
                           ELSE ARTIST_DIRECTORY[a].followers,
             genres |-> ARTIST_DIRECTORY[a].genres,
             name |-> ARTIST_DIRECTORY[a].name]]

(***************************************************************************)
(* Evaluation of one candidate (lines 258-326).                            *)
(***************************************************************************)
Title(track) == Strip(track.name)
\* Line 270: track["artists"][0].get("id"); "" stands for None
ArtistId(track) ==
    IF "id" \in DOMAIN track.artists[1] THEN track.artists[1].id ELSE ""
ArtistCount(artist_id) ==
    IF artist_id \in DOMAIN artist_counts THEN artist_counts[artist_id] ELSE 0
\* TitleKey with the raw title: neither strip() nor lower()
TitleKeyRaw(track) == <<ArtistId(track), track.name>>
TitleKey(track) == <<ArtistId(track), Lower(Title(track))>>

\* ArtistObj with a default of 0 followers for a missing artist
ArtistObjZeroDefault(track) ==
    IF ArtistId(track) \in DOMAIN artist_map
    THEN artist_map[ArtistId(track)]
    ELSE [followers |-> 0, genres |-> <<>>, name |-> <<>>]
ArtistObj(track) ==
    IF ArtistId(track) \in DOMAIN artist_map
    THEN artist_map[ArtistId(track)]
    ELSE [followers |-> UNKNOWN_FOLLOWERS, genres |-> <<>>, name |-> <<>>]

Popularity(track) == IF track.popularity = None THEN 0 ELSE track.popularity

\* Each filter is TRUE when it rejects; a filter is evaluated only when the
\* ones before it have passed.
RejectMissing(track) == ~track.present \/ track.artists = <<>>
RejectUri(track) == track.uri = "" \/ track.uri \in seen_uris
RejectTitle(track) == Title(track) = <<>> \/ is_bad_version(Title(track))
RejectArtistId(track) == ArtistId(track) = ""
\* RejectArtistCap with > for >=
RejectArtistCapOffByOne(track) == ArtistCount(ArtistId(track)) > MAX_SONGS_PER_ARTIST
RejectArtistCap(track) == ArtistCount(ArtistId(track)) >= MAX_SONGS_PER_ARTIST
RejectTitleKey(track) == TitleKey(track) \in seen_artist_title
\* RejectQuota with the test of the other bucket forgotten
RejectQuotaHebrewOnly(track) ==
    is_hebrew_track(track) /\ Len(hebrew_tracks) >= hebrew_needed
RejectQuota(track) ==
    IF is_hebrew_track(track)
    THEN Len(hebrew_tracks) >= hebrew_needed
    ELSE Len(global_tracks) >= global_needed
\* RejectFollowers with exclusive bounds
RejectFollowersExclusive(track) ==
    LET followers == ArtistObj(track).followers
    IN  \/ max_followers # None /\ followers >= max_followers
        \/ min_followers # None /\ followers <= min_followers
RejectFollowers(track) ==
    LET followers == ArtistObj(track).followers
    IN  \/ max_followers # None /\ followers > max_followers
        \/ min_followers # None /\ followers < min_followers
RejectPopularity(track) ==
    min_popularity # None /\ Popularity(track) < min_popularity
\* RejectIndian with > for >=
RejectIndianOffByOne(track) ==
    is_indian_track(track, ArtistObj(track)) /\ indian_count > max_indian
RejectIndian(track) ==
    is_indian_track(track, ArtistObj(track)) /\ indian_count >= max_indian

\* The `continue` the candidate takes, or "accept".
Verdict(track) ==
    IF RejectMissing(track) THEN "missing"
    ELSE IF RejectUri(track) THEN "uri"
    ELSE IF RejectTitle(track) THEN "title"
    ELSE IF RejectArtistId(track) THEN "artist_id"
    ELSE IF RejectArtistCap(track) THEN "artist_cap"
    ELSE IF RejectTitleKey(track) THEN "title_key"
    ELSE IF RejectQuota(track) THEN "quota"
    ELSE IF RejectFollowers(track) THEN "followers"
    ELSE IF RejectPopularity(track) THEN "popularity"
    ELSE IF RejectIndian(track) THEN "indian"
    ELSE "accept"

(***************************************************************************)
(* The sampling loop.                                                      *)
(***************************************************************************)
\* LoopTest with `and` for `or`
LoopTestAnd ==
    Len(hebrew_tracks) < hebrew_needed /\ Len(global_tracks) < global_needed

\* LoopTest with <= for <
LoopTestOffByOne ==
    Len(hebrew_tracks) <= hebrew_needed \/ Len(global_tracks) <= global_needed

\* Line 247: the test of the while loop.
LoopTest ==
    Len(hebrew_tracks) < hebrew_needed \/ Len(global_tracks) < global_needed

\* Lines 247-249: the loop test holds; pick the seed of this iteration.  The
\* batch, artist map and position of the previous iteration are dead here.
PickSeed ==
    /\ pc = "loop"
    /\ LoopTest
    /\ LET need_hebrew_now == Len(hebrew_tracks) < hebrew_needed
       IN  seed' \in pick_seed(need_hebrew_now, mainstream_mode)
    /\ pc' = "search"
    /\ batch' = <<>>
    /\ artist_map' = <<>>
    /\ idx' = 0
    /\ UNCHANGED <<process, config, generator, final_tracks>>

\* Search with `break` for `continue`: an empty batch ends the loop
SearchBreaks ==
    /\ pc = "search"
    /\ batch' \in batch_search_tracks
    /\ IF batch' = <<>>
       THEN /\ pc' = "done"
            /\ final_tracks' = hebrew_tracks \o global_tracks
       ELSE /\ pc' = "fetch"
            /\ UNCHANGED final_tracks
    /\ seed' = <<>>
    /\ UNCHANGED <<process, config, generator, artist_map, idx>>

\* Lines 251-253: the search; an empty batch starts the next iteration
\* (`continue`).  The seed is not read after the search: it is kept until the
\* next pick_seed after `continue` and is dead once a batch is being scanned.
Search ==
    /\ pc = "search"
    /\ batch' \in batch_search_tracks
    /\ pc' = IF batch' = <<>> THEN "loop" ELSE "fetch"
    /\ seed' = IF batch' = <<>> THEN seed ELSE <<>>
    /\ UNCHANGED <<process, config, generator, artist_map, idx, final_tracks>>

\* Lines 255-256: the artist info of the batch's primary artists.  Nothing
\* catches the KeyError of line 255: it ends the run.
FetchArtistInfo ==
    /\ pc = "fetch"
    /\ IF PrimaryArtistIdRaises(batch)
       THEN /\ pc' = "error"
            /\ UNCHANGED <<artist_map, idx>>
       ELSE /\ artist_map' = batch_fetch_artist_info(PrimaryArtistIds(batch))
            /\ idx' = 1
            /\ pc' = "scan"
    /\ UNCHANGED <<process, config, generator, seed, batch, final_tracks>>

\* The for loop moves on: to the next candidate, or, after the last one or
\* on `break`, to the loop test.
NextCandidate(break) ==
    IF break \/ idx = Len(batch)
    THEN /\ pc' = "loop"
         /\ UNCHANGED <<batch, artist_map, idx>>
    ELSE /\ pc' = "scan"
         /\ idx' = idx + 1
         /\ UNCHANGED <<batch, artist_map>>

\* One of the `continue` statements of lines 259-311.
RejectCandidate ==
    /\ pc = "scan"
    /\ Verdict(batch[idx]) # "accept"
    /\ NextCandidate(FALSE)
    /\ UNCHANGED <<process, config, generator, seed, final_tracks>>

\* AcceptCandidate setting the artist's count to 1 for c + 1
AcceptCandidateCountsOnce ==
    /\ pc = "scan"
    /\ LET track == batch[idx]
           artist_id == ArtistId(track)
           indian_flag == is_indian_track(track, ArtistObj(track))
           track_is_hebrew == is_hebrew_track(track)
       IN  /\ Verdict(track) = "accept"
           /\ seen_uris' = seen_uris \cup {track.uri}
           /\ seen_artist_title' = seen_artist_title \cup {TitleKey(track)}
           /\ artist_counts' =
                 [a \in DOMAIN artist_counts \cup {artist_id} |->
                     IF a = artist_id THEN 1 ELSE artist_counts[a]]
           /\ indian_count' = IF indian_flag THEN indian_count + 1 ELSE indian_count
           /\ hebrew_tracks' = IF track_is_hebrew
                               THEN Append(hebrew_tracks, track.uri) ELSE hebrew_tracks
           /\ global_tracks' = IF track_is_hebrew
                               THEN global_tracks ELSE Append(global_tracks, track.uri)
           /\ NextCandidate(/\ Len(hebrew_tracks') >= hebrew_needed
                            /\ Len(global_tracks') >= global_needed)
    /\ UNCHANGED <<process, config, seed, final_tracks>>

\* AcceptCandidate without the update of indian_count
AcceptCandidateUncounted ==
    /\ pc = "scan"
    /\ LET track == batch[idx]
           artist_id == ArtistId(track)
           track_is_hebrew == is_hebrew_track(track)
       IN  /\ Verdict(track) = "accept"
           /\ seen_uris' = seen_uris \cup {track.uri}
           /\ seen_artist_title' = seen_artist_title \cup {TitleKey(track)}
           /\ artist_counts' =
                 [a \in DOMAIN artist_counts \cup {artist_id} |->
                     IF a = artist_id THEN ArtistCount(artist_id) + 1
                     ELSE artist_counts[a]]
           /\ indian_count' = indian_count
           /\ hebrew_tracks' = IF track_is_hebrew
                               THEN Append(hebrew_tracks, track.uri) ELSE hebrew_tracks
           /\ global_tracks' = IF track_is_hebrew
                               THEN global_tracks ELSE Append(global_tracks, track.uri)
           /\ NextCandidate(/\ Len(hebrew_tracks') >= hebrew_needed
                            /\ Len(global_tracks') >= global_needed)
    /\ UNCHANGED <<process, config, seed, final_tracks>>

\* Lines 313-326.
AcceptCandidate ==
    /\ pc = "scan"
    /\ LET track == batch[idx]
           artist_id == ArtistId(track)
           indian_flag == is_indian_track(track, ArtistObj(track))
           track_is_hebrew == is_hebrew_track(track)
       IN  /\ Verdict(track) = "accept"
           /\ seen_uris' = seen_uris \cup {track.uri}
           /\ seen_artist_title' = seen_artist_title \cup {TitleKey(track)}
           /\ artist_counts' =
                 [a \in DOMAIN artist_counts \cup {artist_id} |->
                     IF a = artist_id THEN ArtistCount(artist_id) + 1
                     ELSE artist_counts[a]]
           /\ indian_count' = IF indian_flag THEN indian_count + 1 ELSE indian_count
           /\ hebrew_tracks' = IF track_is_hebrew
                               THEN Append(hebrew_tracks, track.uri) ELSE hebrew_tracks
           /\ global_tracks' = IF track_is_hebrew
                               THEN global_tracks ELSE Append(global_tracks, track.uri)
           /\ NextCandidate(/\ Len(hebrew_tracks') >= hebrew_needed
                            /\ Len(global_tracks') >= global_needed)
    /\ UNCHANGED <<process, config, seed, final_tracks>>

\* Shuffles drawing with replacement (random.choices for random.shuffle)
ShufflesWithReplacement(list) ==
    [1..Len(list) -> {list[k] : k \in 1..Len(list)}]

\* random.shuffle: every ordering of the list
Shuffles(list) ==
    {[k \in 1..Len(list) |-> list[p[k]]] : p \in Permutations(1..Len(list))}

\* Lines 328-330: the loop test fails; shuffle and return.
Return ==
    /\ pc = "loop"
    /\ ~LoopTest
    /\ final_tracks' \in Shuffles(hebrew_tracks \o global_tracks)
    /\ pc' = "done"
    /\ batch' = <<>>
    /\ artist_map' = <<>>
    /\ idx' = 0
    /\ UNCHANGED <<process, config, generator, seed>>

Next ==
    \/ PickSeed
    \/ Search
    \/ FetchArtistInfo
    \/ RejectCandidate
    \/ AcceptCandidate
    \/ Return

Spec == Init /\ [][Next]_vars
SpecOneArtist == InitOneArtist /\ [][Next]_vars
SpecTitles == InitTitles /\ [][Next]_vars

\* The program is sequential and every statement of the loop completes: a run
\* that can take a step takes one.  What the search returns stays free.
SpecDefects == InitDefects /\ [][Next]_vars
SpecLanguage == InitLanguage /\ [][Next]_vars
SpecPopularity == InitPopularity /\ [][Next]_vars
SpecFair == InitFair /\ [][Next]_vars /\ WF_vars(Next)

(***************************************************************************)
(* Playlist management: process_playlist and main.                         *)
(***************************************************************************)
\* str(n) for a non-negative integer
Digit == <<"0", "1", "2", "3", "4", "5", "6", "7", "8", "9">>
RECURSIVE PyStr(_)
PyStr(n) == IF n < 10 THEN <<Digit[n + 1]>> ELSE PyStr(n \div 10) \o <<Digit[(n % 10) + 1]>>

\* Truth value of an optional number: None and 0 are falsy
Truthy(x) == x # None /\ x # 0

\* MinClause testing `is not None` for truthiness
MinClauseNotNone(min_f) == IF min_f # None THEN <<">">> \o PyStr(min_f) ELSE <<>>
\* Line 367
MinClause(min_f) == IF Truthy(min_f) THEN <<">">> \o PyStr(min_f) ELSE <<>>
\* Line 368
AndClause(min_f, max_f) ==
    IF Truthy(min_f) /\ Truthy(max_f) THEN <<" ", "a", "n", "d", " ">> ELSE <<>>
\* Line 369
MaxClause(max_f) == IF Truthy(max_f) THEN <<"<">> \o PyStr(max_f) ELSE <<>>

\* Lines 364-372.  int(HEBREW_PERCENT * 100) is the fraction's hundredths.
description(min_f, max_f) ==
    <<"A", "u", "t", "o", "-", "u", "p", "d", "a", "t", "e", "d", " ", "a", "t", " ">>
        \o timestamp \o <<".", " ">>
        \o <<"F", "o", "l", "l", "o", "w", "e", "r", "s", ":", " ">>
        \o MinClause(min_f) \o AndClause(min_f, max_f) \o MaxClause(max_f)
        \o <<".", " ">>
        \o <<"H", "e", "b", "r", "e", "w", " ", "%", " ", "=", " ">>
        \o PyStr(PyInt(HEBREW_PERCENT * 100, 100)) \o <<"%", ".", " ">>
        \o <<"M", "a", "x", " ">> \o PyStr(MAX_SONGS_PER_ARTIST)
        \o <<" ", "s", "o", "n", "g", "s", "/", "a", "r", "t", "i", "s", "t", ".">>

\* datetime.now().strftime("%Y-%m-%d %H:%M:%S")
Timestamps == {
    <<"2", "0", "2", "4", "-", "0", "1", "-", "0", "1", " ", "0", "0", ":",
      "0", "0", ":", "0", "0">>,
    <<"2", "0", "2", "5", "-", "1", "2", "-", "3", "1", " ", "2", "3", ":",
      "5", "9", ":", "5", "9">> }

\* The user's playlists before the run: those of the odd tiers exist, with
\* the items and the description of an earlier run.
NoPlaylist == [exists |-> FALSE, items |-> <<>>, description |-> <<>>]
OldPlaylist == [exists |-> TRUE, items |-> <<"u0">>, description |-> <<"o", "l", "d">>]
USER_PLAYLISTS == [k \in 1..Len(PLAYLISTS) |-> IF k % 2 = 1 THEN OldPlaylist ELSE NoPlaylist]

\* main, lines 384-388, up to the first process_playlist; no
\* generate_tracks_for_playlist call has been made.
InitMain ==
    /\ TRACK_COUNT \in 1..2
    /\ HEBREW_PERCENT \in HebrewPercents
    /\ MAX_INDIAN_PERCENT = 6
    /\ FILTER_LIVE = TRUE
    /\ FILTER_REMIX = TRUE
    /\ FILTER_KARAOKE = TRUE
    /\ catalog = MAIN_CATALOG
    /\ timestamp \in Timestamps
    /\ tier = 1
    /\ step = "find"
    /\ playlists = USER_PLAYLISTS
    /\ max_followers = None
    /\ min_followers = None
    /\ hebrew_tracks = <<>>
    /\ global_tracks = <<>>
    /\ artist_counts = <<>>
    /\ seen_uris = {}
    /\ seen_artist_title = {}
    /\ indian_count = 0
    /\ pc = "idle"
    /\ seed = <<>>
    /\ batch = <<>>
    /\ artist_map = <<>>
    /\ idx = 0
    /\ final_tracks = <<>>

\* Lines 356 and 336-344: the tier's playlist, created empty when the user
\* has none of that name.
find_or_create_playlist ==
    /\ step = "find"
    /\ playlists' = [playlists EXCEPT ![tier] =
                         IF @.exists THEN @
                         ELSE [exists |-> TRUE, items |-> <<>>, description |-> <<>>]]
    /\ step' = "clear"
    /\ UNCHANGED <<timestamp, tier, config, generator, pc, seed, batch,
                   artist_map, idx, final_tracks>>

\* Lines 357 and 347-349.
clear_playlist ==
    /\ step = "clear"
    /\ playlists' = [playlists EXCEPT ![tier].items = <<>>]
    /\ step' = "generate"
    /\ UNCHANGED <<timestamp, tier, config, generator, pc, seed, batch,
                   artist_map, idx, final_tracks>>

\* CallGenerate with the generator state kept from the tier before
CallGenerateSharedState ==
    /\ step = "generate"
    /\ pc = "idle"
    /\ max_followers' = PLAYLISTS[tier].max
    /\ min_followers' = PLAYLISTS[tier].min
    /\ pc' = "loop"
    /\ UNCHANGED <<process, TRACK_COUNT, HEBREW_PERCENT, MAX_INDIAN_PERCENT,
                   FILTER_LIVE, FILTER_REMIX, FILTER_KARAOKE, catalog,
                   generator, seed, batch, artist_map, idx, final_tracks>>

\* Lines 359 and 222-245: the call of generate_tracks_for_playlist with the
\* tier's limits; its locals are new.
CallGenerate ==
    /\ step = "generate"
    /\ pc = "idle"
    /\ max_followers' = PLAYLISTS[tier].max
    /\ min_followers' = PLAYLISTS[tier].min
    /\ hebrew_tracks' = <<>>
    /\ global_tracks' = <<>>
    /\ artist_counts' = <<>>
    /\ seen_uris' = {}
    /\ seen_artist_title' = {}
    /\ indian_count' = 0
    /\ pc' = "loop"
    /\ seed' = <<>>
    /\ batch' = <<>>
    /\ artist_map' = <<>>
    /\ idx' = 0
    /\ final_tracks' = <<>>
    /\ UNCHANGED <<process, TRACK_COUNT, HEBREW_PERCENT, MAX_INDIAN_PERCENT,
                   FILTER_LIVE, FILTER_REMIX, FILTER_KARAOKE, catalog>>

\* Lines 359-362: generate_tracks_for_playlist has returned `tracks`;
\* sp.playlist_add_items appends them to the playlist.
AddItems ==
    /\ step = "generate"
    /\ pc = "done"
    /\ playlists' = [playlists EXCEPT ![tier].items = @ \o final_tracks]
    /\ step' = "describe"
    /\ pc' = "idle"
    /\ UNCHANGED <<timestamp, tier, config, generator, seed, batch,
                   artist_map, idx, final_tracks>>

\* Lines 364-377, and main's loop (lines 388-391) moving to the next tier.
ChangeDetails ==
    /\ step = "describe"
    /\ playlists' = [playlists EXCEPT ![tier].description =
                         description(PLAYLISTS[tier].min, PLAYLISTS[tier].max)]
    /\ IF tier < Len(PLAYLISTS)
       THEN /\ tier' = tier + 1
            /\ step' = "find"
       ELSE /\ step' = "finished"
            /\ UNCHANGED tier
    /\ UNCHANGED <<timestamp, config, generator, pc, seed, batch,
                   artist_map, idx, final_tracks>>

NextMain ==
    \/ find_or_create_playlist
    \/ clear_playlist
    \/ CallGenerate
    \/ Next
    \/ AddItems
    \/ ChangeDetails

SpecMain == InitMain /\ [][NextMain]_vars

(***************************************************************************)
(* Properties.                                                             *)
(***************************************************************************)
\* The accepted track ids, target-language bucket first.
Accepted == hebrew_tracks \o global_tracks

\* The catalog entry of a track id.
TrackOf(uri) == CHOOSE t \in catalog : t.uri = uri

\* The number of target-language tracks among the ids of a list.
HebrewIn(list) ==
    Cardinality({k \in 1..Len(list) : is_hebrew_track(TrackOf(list[k]))})

\* The last candidate the for loop has evaluated was `track`, it was rejected
\* with `verdict`, and the buckets still have room.
JustRejected(track, verdict) ==
    /\ pc \in {"scan", "loop"}
    /\ LET done == IF pc = "scan" THEN idx - 1 ELSE idx
       IN  /\ done >= 1
           /\ batch[done] = track
    /\ track.uri \notin seen_uris
    /\ Verdict(track) = verdict
    /\ LoopTest

\* C1: neither bucket ever holds more than its quota, so the two together
\* never hold more than TRACK_COUNT; and the scan of a batch never goes on
\* once both buckets are at their target.
C1_QuotaNeverExceeded ==
    /\ Len(hebrew_tracks) <= hebrew_needed
    /\ Len(global_tracks) <= global_needed
    /\ Len(hebrew_tracks) + Len(global_tracks) <= TRACK_COUNT
    /\ pc = "scan" => ~BucketsFull

\* Both buckets were filled in the middle of a batch: the scan stopped with
\* candidates left.
C1_Witness ==
    /\ pc = "loop"
    /\ BucketsFull
    /\ hebrew_needed > 0
    /\ idx >= 1
    /\ idx < Len(batch)

\* C2: the run returns only with the target-language bucket at exactly
\* hebrew_needed and the other bucket at exactly TRACK_COUNT - hebrew_needed,
\* and the returned list has exactly TRACK_COUNT ids.
C2_ReturnsOnlyWhenFull ==
    pc = "done" =>
        /\ Len(hebrew_tracks) = hebrew_needed
        /\ Len(global_tracks) = TRACK_COUNT - hebrew_needed
        /\ Len(final_tracks) = TRACK_COUNT

C2_Witness ==
    /\ pc = "done"
    /\ TRACK_COUNT = MaxTrackCount
    /\ Len(hebrew_tracks) >= 1
    /\ Len(global_tracks) >= 1

\* C3 as stated: a finished output holds round(TRACK_COUNT * fraction)
\* target-language tracks.
C3_RoundedQuota ==
    pc = "done" => HebrewIn(final_tracks) = PyRound(TRACK_COUNT * HEBREW_PERCENT, 100)

\* C3, amended: a finished output holds int(TRACK_COUNT * fraction)
\* target-language tracks, the product truncated.
C3_TruncatedQuota ==
    pc = "done" => HebrewIn(final_tracks) = (TRACK_COUNT * HEBREW_PERCENT) \div 100

\* A finished output with target-language tracks where truncating and
\* rounding differ.
C3_Witness ==
    /\ pc = "done"
    /\ HebrewIn(final_tracks) >= 1
    /\ PyRound(TRACK_COUNT * HEBREW_PERCENT, 100) # (TRACK_COUNT * HEBREW_PERCENT) \div 100

\* The artist info a candidate is evaluated with: what sp.artists returns
\* for its primary artist, or the stand-in for a missing artist.
ArtistInfoOf(track) ==
    LET info == batch_fetch_artist_info(<<track.artists[1].id>>)
    IN  IF track.artists[1].id \in DOMAIN info
        THEN info[track.artists[1].id]
        ELSE [followers |-> 999999, genres |-> <<>>, name |-> <<>>]

\* The number of ids of a list whose track has primary artist `artist_id`.
PrimaryIn(artist_id, list) ==
    Cardinality({k \in 1..Len(list) : TrackOf(list[k]).artists[1].id = artist_id})

\* The number of ids of a list whose track is regional-flagged.
IndianIn(list) ==
    Cardinality({k \in 1..Len(list) :
        is_indian_track(TrackOf(list[k]), ArtistInfoOf(TrackOf(list[k])))})

NoDuplicates(list) ==
    \A i, j \in 1..Len(list) : i # j => list[i] # list[j]

\* The filters after the per-artist cap all pass.
PassesLaterFilters(track) ==
    /\ ~RejectTitleKey(track)
    /\ ~RejectQuota(track)
    /\ ~RejectFollowers(track)
    /\ ~RejectPopularity(track)
    /\ ~RejectIndian(track)

\* C4: no artist is the primary artist of more than 3 accepted tracks, in
\* any state and in the returned list.
C4_ArtistCap ==
    \A t \in catalog :
        /\ PrimaryIn(t.artists[1].id, Accepted) <= 3
        /\ PrimaryIn(t.artists[1].id, final_tracks) <= 3

\* A fourth track of an artist with 3 accepted tracks was rejected for the
\* cap alone.
C4_Witness ==
    \E t \in catalog :
        /\ JustRejected(t, "artist_cap")
        /\ PrimaryIn(t.artists[1].id, Accepted) = 3
        /\ PassesLaterFilters(t)

\* C5: no track id appears twice among the accepted ids or in the returned
\* list.
C5_NoDuplicateIds ==
    /\ NoDuplicates(Accepted)
    /\ NoDuplicates(final_tracks)

\* One batch held the same track twice: the first was accepted, the second
\* rejected as a duplicate id.
C5_Witness ==
    /\ pc = "loop"
    /\ LoopTest
    /\ Len(batch) = 2
    /\ idx = 2
    /\ batch[1] = batch[2]
    /\ Accepted # <<>>
    /\ batch[1].uri \in {hebrew_tracks[k] : k \in {Len(hebrew_tracks)} \ {0}}
                            \cup {global_tracks[k] : k \in {Len(global_tracks)} \ {0}}
    /\ Verdict(batch[2]) = "uri"

\* C6: the accepted regional-flagged tracks never number more than
\* floor(TRACK_COUNT * MAX_INDIAN_PERCENT), in any state and in the returned
\* list.
C6_IndianCap ==
    /\ indian_count <= (TRACK_COUNT * MAX_INDIAN_PERCENT) \div 100
    /\ IndianIn(Accepted) <= (TRACK_COUNT * MAX_INDIAN_PERCENT) \div 100
    /\ IndianIn(final_tracks) <= (TRACK_COUNT * MAX_INDIAN_PERCENT) \div 100

\* With the cap reached by an accepted regional-flagged track, another one
\* was rejected for the cap.
C6_Witness ==
    \E t \in catalog :
        /\ JustRejected(t, "indian")
        /\ IndianIn(Accepted) >= 1
        /\ IndianIn(Accepted) = (TRACK_COUNT * MAX_INDIAN_PERCENT) \div 100

\* f lies in the follower band of the run; an absent bound does not constrain.
InBand(f) ==
    /\ max_followers = None \/ f <= max_followers
    /\ min_followers = None \/ f >= min_followers

\* C7: a track is accepted only with its primary artist's follower count in
\* the band [min, max]; a count equal to min or to max is not rejected by the
\* follower filter; the band with min 0 and no max rejects nothing on
\* followers.
C7_FollowerBand ==
    [][pc = "scan" /\ ~RejectMissing(batch[idx]) =>
          LET t == batch[idx]
              f == ArtistInfoOf(t).followers
          IN  /\ Accepted' # Accepted => InBand(f)
              /\ f = min_followers \/ f = max_followers => ~RejectFollowers(t)
              /\ min_followers = 0 /\ max_followers = None => ~RejectFollowers(t)]_vars

\* A track at the lower bound and a track at the upper bound are accepted,
\* and a track outside the band was rejected on followers.
C7_Witness ==
    /\ \E t \in catalog :
          t.uri \in seen_uris /\ ArtistInfoOf(t).followers = min_followers
    /\ \E t \in catalog :
          t.uri \in seen_uris /\ ArtistInfoOf(t).followers = max_followers
    /\ \E t \in catalog :
          JustRejected(t, "followers") /\ ~InBand(ArtistInfoOf(t).followers)

\* The primary artist of the track is missing from what sp.artists returns.
ArtistMissing(track) == track.artists[1].id \notin DOMAIN ARTIST_DIRECTORY

\* sp.artists returns the primary artist of the track without a follower count.
FollowersUnknown(track) ==
    /\ ~ArtistMissing(track)
    /\ ARTIST_DIRECTORY[track.artists[1].id].followers = None

\* C8: a candidate whose primary artist is missing from the artist map, or
\* has no follower count, is evaluated with 999999 followers (and, when
\* missing, no genres): every run with a finite max rejects it.
C8_MissingArtist ==
    [][pc = "scan" /\ ~RejectMissing(batch[idx])
         /\ (ArtistMissing(batch[idx]) \/ FollowersUnknown(batch[idx])) =>
          LET t == batch[idx]
          IN  /\ ArtistObj(t).followers = 999999
              /\ ArtistMissing(t) => ArtistObj(t).genres = <<>>
              /\ max_followers # None => Accepted' = Accepted]_vars

\* A run without a max has accepted a track of a missing artist and a track
\* of an artist without follower count; the floor of the "famous" tier applies.
C8_Witness ==
    /\ max_followers = None
    /\ min_popularity = 70
    /\ \E t \in catalog : t.uri \in seen_uris /\ ArtistMissing(t)
    /\ \E t \in catalog : t.uri \in seen_uris /\ FollowersUnknown(t)

\* The (primary artist id, stripped lower-cased title) pair of a track.
ArtistTitlePair(track) == <<track.artists[1].id, Lower(Strip(track.name))>>

\* C9: no two accepted tracks share the (primary artist id, stripped
\* lower-cased title) pair.
C9_NoNearDuplicates ==
    \A i, j \in 1..Len(Accepted) :
        i # j => ArtistTitlePair(TrackOf(Accepted[i])) # ArtistTitlePair(TrackOf(Accepted[j]))

\* A track with a new id was rejected for sharing the pair of an accepted
\* track, with room in its bucket and every later filter passing.
C9_Witness ==
    \E t \in catalog :
        /\ JustRejected(t, "title_key")
        /\ \E k \in 1..Len(Accepted) :
              ArtistTitlePair(TrackOf(Accepted[k])) = ArtistTitlePair(t)
        /\ ~RejectQuota(t)
        /\ ~RejectFollowers(t)
        /\ ~RejectPopularity(t)
        /\ ~RejectIndian(t)

\* C10: no accepted track has a blank title or a title with a marker of an
\* enabled switch: "Song (Live at Arena)" is never accepted with the live
\* switch on, "Tune REMIX" never with the remix switch on, "Karaoke Night"
\* never with the karaoke switch on.
C10_NoBadTitle ==
    /\ \A k \in 1..Len(Accepted) :
          /\ Strip(TrackOf(Accepted[k]).name) # <<>>
          /\ ~is_bad_version(Strip(TrackOf(Accepted[k]).name))
    /\ Blank.uri \notin seen_uris
    /\ FILTER_LIVE => Live.uri \notin seen_uris
    /\ FILTER_REMIX => Remix.uri \notin seen_uris
    /\ FILTER_KARAOKE => Karaoke.uri \notin seen_uris

\* With only the live switch off, the live title is accepted and the remix
\* title was rejected for its title.
C10_Witness ==
    /\ ~FILTER_LIVE
    /\ FILTER_REMIX
    /\ FILTER_KARAOKE
    /\ Live.uri \in seen_uris
    /\ JustRejected(Remix, "title")

\* While a bucket is short of its target, the candidate source sooner or
\* later puts a candidate in front of the evaluator that passes every filter.
SourceKeepsYielding ==
    [](~BucketsFull => <>(\/ BucketsFull
                          \/ pc = "scan" /\ Verdict(batch[idx]) = "accept"))

\* C11 as stated: every run reaches DONE, whatever the candidate source
\* returns.
C11_AlwaysTerminates == <>(pc = "done")

\* C11, amended: the loop has no iteration cap; a run reaches DONE when the
\* candidate source keeps yielding acceptable candidates until both buckets
\* are at their target, and only then.
C11_TerminatesIfSourceYields == SourceKeepsYielding => <>(pc = "done")

\* A search has just come back empty with a track accepted and a bucket
\* still short: the loop is about to pick another seed, as it did before.
C11_Witness ==
    /\ pc = "loop"
    /\ seed # <<>>
    /\ batch = <<>>
    /\ Accepted # <<>>
    /\ ~BucketsFull

\* A required field of the candidate is missing or invalid: a null entry, no
\* artists, no uri, a blank title, a primary artist without an id.
Defective(track) ==
    \/ ~track.present
    \/ track.artists = <<>>
    \/ track.uri = ""
    \/ Strip(track.name) = <<>>
    \/ "id" \notin DOMAIN track.artists[1]
    \/ track.artists[1].id = ""

\* C12: a batch with a defective candidate does not abort the run, and
\* evaluating a defective candidate leaves the generator state unchanged and
\* goes on with the next candidate of the same batch.
C12_DefectRejectsOnlyCandidate ==
    [][/\ (pc = "fetch" /\ (\E k \in 1..Len(batch) : Defective(batch[k]))
            => pc' # "error")
       /\ (pc = "scan" /\ Defective(batch[idx])
            => /\ UNCHANGED generator
               /\ batch' = batch
               /\ IF idx < Len(batch)
                  THEN pc' = "scan" /\ idx' = idx + 1
                  ELSE pc' = "loop")]_vars

\* C13: a search that comes back empty is followed by no artist-info fetch
\* and no error and leaves the generator state unchanged; the step after it
\* picks a seed anew, from the pool the unchanged buckets call for.
C13_EmptyBatchReloops ==
    [][/\ (pc = "search" /\ batch' = <<>>
            => /\ UNCHANGED generator
               /\ UNCHANGED artist_map
               /\ pc' = "loop"
               /\ LoopTest')
       /\ (pc = "loop" /\ batch = <<>> /\ seed # <<>>
            => /\ UNCHANGED generator
               /\ pc' = "search"
               /\ seed' \in pick_seed(Len(hebrew_tracks) < hebrew_needed,
                                      mainstream_mode))]_vars

\* The first search of a mainstream tier has just come back empty.
C13_Witness ==
    /\ pc = "loop"
    /\ seed \in MAINSTREAM_SEEDS
    /\ batch = <<>>
    /\ artist_map = <<>>
    /\ Accepted = <<>>

\* No operation of this run has touched the playlist of tier k.
Untouched(k) == playlists[k] = USER_PLAYLISTS[k]

\* The playlist of tier k holds one generated list and a new description.
Updated(k) ==
    /\ playlists[k].exists
    /\ Len(playlists[k].items) = TRACK_COUNT
    /\ NoDuplicates(playlists[k].items)
    /\ \A i \in 1..Len(playlists[k].items) :
          \E t \in catalog : t.uri = playlists[k].items[i]
    /\ playlists[k].description \notin {<<>>, USER_PLAYLISTS[k].description}

\* Where main and process_playlist stand, and what they have done so far.
TiersInOrder ==
    /\ \A k \in 1..Len(PLAYLISTS) :
          /\ (k < tier \/ step = "finished") => Updated(k)
          /\ (k > tier /\ step # "finished") => Untouched(k)
    /\ step = "find" => Untouched(tier) /\ pc = "idle"
    /\ step = "clear" =>
          /\ playlists[tier].exists
          /\ playlists[tier].items = USER_PLAYLISTS[tier].items
          /\ pc = "idle"
    /\ step = "generate" =>
          /\ playlists[tier].exists
          /\ playlists[tier].items = <<>>
          /\ playlists[tier].description = USER_PLAYLISTS[tier].description
    /\ step = "describe" =>
          /\ playlists[tier].items = final_tracks
          /\ Len(final_tracks) = TRACK_COUNT
          /\ playlists[tier].description = USER_PLAYLISTS[tier].description
          /\ pc = "idle"
    /\ pc # "idle" => step = "generate"

\* The generator starts from a fresh state with the limits of the tier, the
\* items are added when it has returned, and the tiers are taken one by one.
TierSteps ==
    /\ (pc = "idle" /\ pc' # "idle") =>
          /\ generator' = <<(<<>>), (<<>>), (<<>>), {}, {}, 0>>
          /\ max_followers' = PLAYLISTS[tier].max
          /\ min_followers' = PLAYLISTS[tier].min
          /\ pc' = "loop"
    /\ playlists'[tier].items # playlists[tier].items =>
          \/ step = "clear" /\ playlists'[tier].items = <<>>
          \/ step = "generate" /\ pc = "done" /\ playlists'[tier].items = final_tracks
    /\ tier' # tier => step = "describe" /\ tier' = tier + 1

\* C14: the tiers are processed one after the other in table order, each
\* with a fresh generator state and in the order find-or-create, clear,
\* generate, add items once, set description; a later tier's playlist is
\* untouched, and the current one stays cleared, while the generator of the
\* current tier has not returned.
C14_TiersInSequence == []TiersInOrder /\ [][TierSteps]_vars

\* All six tiers have been updated.
C14_Witness ==
    /\ step = "finished"
    /\ tier = Len(PLAYLISTS)
    /\ \A k \in 1..Len(PLAYLISTS) : Updated(k)

\* The text expected after "Followers: " for each tier of the table, in order.
ExpectedBandText == <<
    <<"<", "2", "0", "0">>,
    <<">", "2", "0", "0", " ", "a", "n", "d", " ", "<", "1", "0", "0", "0">>,
    <<">", "1", "0", "0", "0", " ", "a", "n", "d", " ", "<", "1", "0", "0",
      "0", "0">>,
    <<">", "1", "0", "0", "0", "0", " ", "a", "n", "d", " ", "<", "5", "0",
      "0", "0", "0">>,
    <<">", "5", "0", "0", "0", "0", " ", "a", "n", "d", " ", "<", "5", "0",
      "0", "0", "0", "0">>,
    <<">", "5", "0", "0", "0", "0", "0">> >>

\* The description expected for tier k, after the timestamp clause.
ExpectedDescription(k) ==
    <<"F", "o", "l", "l", "o", "w", "e", "r", "s", ":", " ">>
        \o ExpectedBandText[k]
        \o (IF HEBREW_PERCENT = 30 THEN
            <<".", " ", "H", "e", "b", "r", "e", "w", " ", "%", " ", "=",
              " ", "3", "0">>
            ELSE
            <<".", " ", "H", "e", "b", "r", "e", "w", " ", "%", " ", "=",
              " ", "5", "0">>)
        \o
        <<"%", ".", " ", "M", "a", "x", " ", "3", " ", "s", "o", "n", "g",
          "s", "/", "a", "r", "t", "i", "s", "t", ".">>

\* The scenario of the spec, for band {min: 200, max: 1000} and fraction 0.30.
TinyArtistsDescription ==
    <<"F", "o", "l", "l", "o", "w", "e", "r", "s", ":", " ", ">", "2", "0",
      "0", " ", "a", "n", "d", " ", "<", "1", "0", "0", "0", ".", " ", "H",
      "e", "b", "r", "e", "w", " ", "%", " ", "=", " ", "3", "0", "%", ".",
      " ", "M", "a", "x", " ", "3", " ", "s", "o", "n", "g", "s", "/", "a",
      "r", "t", "i", "s", "t", ".">>

\* The description without its leading "Auto-updated at <timestamp>. ".
AfterTimestamp(text) == SubSeq(text, 16 + Len(timestamp) + 2 + 1, Len(text))

\* C15: the description written for a tier is the timestamp clause followed
\* by "Followers: ", ">min" unless min is 0, " and " when both bounds are
\* there, "<max" unless max is absent, then ". Hebrew % = P%. Max 3
\* songs/artist."; for the band 200..1000 and fraction 0.30 it is exactly
\* "Followers: >200 and <1000. Hebrew % = 30%. Max 3 songs/artist.".
C15_Description ==
    \A k \in 1..Len(PLAYLISTS) :
        (k < tier \/ step = "finished") =>
            /\ SubSeq(playlists[k].description, 1, 16 + Len(timestamp) + 2) =
                <<"A", "u", "t", "o", "-", "u", "p", "d", "a", "t", "e",
                  "d", " ", "a", "t", " ">>
                    \o timestamp \o <<".", " ">>
            /\ AfterTimestamp(playlists[k].description) = ExpectedDescription(k)
            /\ (k = 2 /\ HEBREW_PERCENT = 30) =>
                  AfterTimestamp(playlists[k].description) = TinyArtistsDescription

\* With fraction 0.30 the descriptions of the band 200..1000, of the band
\* without a lower bound and of the band without an upper bound are written.
C15_Witness ==
    /\ step = "finished"
    /\ HEBREW_PERCENT = 30
    /\ AfterTimestamp(playlists[2].description) = TinyArtistsDescription
    /\ playlists[1].description # USER_PLAYLISTS[1].description
    /\ playlists[6].description # USER_PLAYLISTS[6].description

\* The target-language bucket is at its target.
HebrewBucketFull == Len(hebrew_tracks) >= (TRACK_COUNT * HEBREW_PERCENT) \div 100

\* C16: the seed picked at the start of an iteration is a target-language
\* seed exactly when the target-language bucket is not yet full; otherwise it
\* is a mainstream seed when the min follower bound is at least 50000 and an
\* obscure seed when it is not.
C16_SeedPool ==
    [][pc = "loop" /\ pc' = "search" =>
          /\ seed' \in HEBREW_SEEDS <=> ~HebrewBucketFull
          /\ is_hebrew_text(seed') <=> ~HebrewBucketFull
          /\ HebrewBucketFull /\ min_followers >= 50000 => seed' \in MAINSTREAM_SEEDS
          /\ HebrewBucketFull /\ min_followers < 50000 => seed' \in OBSCURE_SEEDS]_vars

\* The target-language bucket has been filled and a mainstream seed has been
\* picked for the iteration that follows.
C16_Witness ==
    /\ pc = "search"
    /\ seed \in MAINSTREAM_SEEDS
    /\ Len(hebrew_tracks) >= 1
    /\ HebrewBucketFull
    /\ ~BucketsFull

\* The letters of the Hebrew block that occur in the catalogs.
HebrewLetters ==
    {"alef", "bet", "gimel", "dalet", "he", "vav", "zayin", "het", "tet", "yod",
     "kaf", "lamed", "final_mem", "mem", "nun", "samekh", "ayin", "pe", "tsadi",
     "qof", "resh", "shin", "tav"}

HasHebrewLetter(text) == \E k \in 1..Len(text) : text[k] \in HebrewLetters

\* The title, the album title or the name of some artist of the track has a
\* Hebrew letter.
InTargetLanguage(track) ==
    \/ HasHebrewLetter(track.name)
    \/ HasHebrewLetter(track.album)
    \/ \E k \in 1..Len(track.artists) : HasHebrewLetter(track.artists[k].name)

\* The two lists hold the same ids, each as often in one as in the other.
IsPermutation(a, b) ==
    /\ Len(a) = Len(b)
    /\ \A x \in {a[k] : k \in 1..Len(a)} \cup {b[k] : k \in 1..Len(b)} :
          Cardinality({k \in 1..Len(a) : a[k] = x})
              = Cardinality({k \in 1..Len(b) : b[k] = x})

\* C17: the target-language bucket holds only tracks with Hebrew text in the
\* title, the album title or an artist name, the other bucket only tracks
\* without; the returned list is a permutation of the two buckets and holds
\* exactly hebrew_needed target-language tracks.
C17_LanguagePartition ==
    /\ \A k \in 1..Len(hebrew_tracks) : InTargetLanguage(TrackOf(hebrew_tracks[k]))
    /\ \A k \in 1..Len(global_tracks) : ~InTargetLanguage(TrackOf(global_tracks[k]))
    /\ {Shir.uri, AlbumShir.uri, Duet.uri} \cap {global_tracks[k] : k \in 1..Len(global_tracks)} = {}
    /\ {Song.uri, Tune.uri} \cap {hebrew_tracks[k] : k \in 1..Len(hebrew_tracks)} = {}
    /\ pc = "done" =>
          /\ IsPermutation(final_tracks, hebrew_tracks \o global_tracks)
          /\ Cardinality({k \in 1..Len(final_tracks) :
                 InTargetLanguage(TrackOf(final_tracks[k]))})
                = (TRACK_COUNT * HEBREW_PERCENT) \div 100

\* With the target-language bucket full of tracks that are Hebrew by album
\* title or second artist, and room in the other bucket, a target-language
\* track was rejected.
C17_Witness ==
    /\ \E k \in 1..Len(hebrew_tracks) : hebrew_tracks[k] \in {AlbumShir.uri, Duet.uri}
    /\ Len(global_tracks) < global_needed
    /\ \E t \in catalog : JustRejected(t, "quota") /\ InTargetLanguage(t)

\* The popularity floor of the run, from its min follower bound.
ExpectedFloor ==
    IF min_followers = None \/ min_followers < 50000 THEN None
    ELSE IF min_followers < 500000 THEN 55
    ELSE 70

\* C18: the popularity floor is none for a min follower bound that is absent
\* or below 50000, 55 from 50000 and 70 from 500000; with a floor every
\* accepted track has a popularity of at least the floor and a track without
\* popularity is never accepted; without a floor no candidate is rejected for
\* its popularity.
C18_PopularityFloor ==
    /\ min_popularity = ExpectedFloor
    /\ ExpectedFloor # None =>
          /\ \A k \in 1..Len(Accepted) :
                /\ TrackOf(Accepted[k]).popularity # None
                /\ TrackOf(Accepted[k]).popularity >= ExpectedFloor
          /\ Unrated.uri \notin seen_uris
    /\ (ExpectedFloor = None /\ pc = "scan") => Verdict(batch[idx]) # "popularity"
    /\ (ExpectedFloor = None /\ pc = "done") => Len(Accepted) = TRACK_COUNT

\* In the "famous" tier the track at the floor is accepted and the track
\* without popularity was rejected for its popularity.
C18_Witness ==
    /\ min_popularity = 70
    /\ Famous.uri \in seen_uris
    /\ JustRejected(Unrated, "popularity")

\* The candidate is well-formed and passes each of the nine filters of the
\* precedence list, stated on the generator state.
PassesAllFilters(track) ==
    /\ track.present /\ track.artists # <<>> /\ track.uri # ""
    /\ track.uri \notin seen_uris
    /\ Strip(track.name) # <<>> /\ ~is_bad_version(Strip(track.name))
    /\ "id" \in DOMAIN track.artists[1] /\ track.artists[1].id # ""
    /\ PrimaryIn(track.artists[1].id, Accepted) < 3
    /\ ArtistTitlePair(track) \notin seen_artist_title
    /\ IF InTargetLanguage(track)
       THEN Len(hebrew_tracks) < (TRACK_COUNT * HEBREW_PERCENT) \div 100
       ELSE Len(global_tracks) < TRACK_COUNT - (TRACK_COUNT * HEBREW_PERCENT) \div 100
    /\ InBand(ArtistInfoOf(track).followers)
    /\ ExpectedFloor = None
          \/ (track.popularity # None /\ track.popularity >= ExpectedFloor)
    /\ ~is_indian_track(track, ArtistInfoOf(track))
          \/ indian_count < (TRACK_COUNT * MAX_INDIAN_PERCENT) \div 100

\* What accepting the candidate changes, and nothing else of the generator
\* state.
AcceptEffect(track) ==
    /\ seen_uris' = seen_uris \cup {track.uri}
    /\ seen_artist_title' = seen_artist_title \cup {ArtistTitlePair(track)}
    /\ DOMAIN artist_counts' = DOMAIN artist_counts \cup {track.artists[1].id}
    /\ \A a \in DOMAIN artist_counts' :
          artist_counts'[a] =
              (IF a \in DOMAIN artist_counts THEN artist_counts[a] ELSE 0)
                  + (IF a = track.artists[1].id THEN 1 ELSE 0)
    /\ indian_count' = indian_count
          + (IF is_indian_track(track, ArtistInfoOf(track)) THEN 1 ELSE 0)
    /\ \/ /\ hebrew_tracks' = Append(hebrew_tracks, track.uri)
          /\ global_tracks' = global_tracks
       \/ /\ global_tracks' = Append(global_tracks, track.uri)
          /\ hebrew_tracks' = hebrew_tracks

\* C19: evaluating a candidate either leaves the generator state unchanged
\* or adds the id to the accepted ids, the pair to the near-duplicate set,
\* one to the primary artist's count, one to the regional count iff the
\* track is regional-flagged, and the id to exactly one bucket; and the
\* candidate is accepted exactly when it passes all nine filters.
C19_AcceptOrNoChange ==
    [][pc = "scan" =>
          /\ PassesAllFilters(batch[idx]) => AcceptEffect(batch[idx])
          /\ ~PassesAllFilters(batch[idx]) => UNCHANGED generator]_vars

\* A regional-flagged track has been accepted after another track, and the
\* candidate after it in the batch was rejected.
C19_Witness ==
    /\ indian_count = 1
    /\ Len(Accepted) = 2
    /\ artist_counts = [a \in {"A1"} |-> 2]
    /\ pc = "loop"
    /\ Len(batch) = 2
    /\ idx = 2
    /\ batch[1].uri = Accepted[2]
    /\ ~PassesAllFilters(batch[2])
    /\ LoopTest

\* The sum of the per-artist counts.
RECURSIVE SumCounts(_)
SumCounts(counts) ==
    IF DOMAIN counts = {} THEN 0
    ELSE LET a == CHOOSE x \in DOMAIN counts : TRUE
         IN  counts[a] + SumCounts([x \in DOMAIN counts \ {a} |-> counts[x]])

\* list is a prefix of its value in the next state.
Extended(list, next) == Len(list) <= Len(next) /\ SubSeq(next, 1, Len(list)) = list

\* The books of a tier run agree with its two buckets.
BooksAgree ==
    /\ seen_uris = {hebrew_tracks[k] : k \in 1..Len(hebrew_tracks)}
                       \cup {global_tracks[k] : k \in 1..Len(global_tracks)}
    /\ Cardinality(seen_uris) = Len(hebrew_tracks) + Len(global_tracks)
    /\ Cardinality(seen_artist_title) = Len(hebrew_tracks) + Len(global_tracks)
    /\ SumCounts(artist_counts) = Len(hebrew_tracks) + Len(global_tracks)
    /\ indian_count = IndianIn(Accepted)

\* The books of a tier run only grow.
BooksGrow ==
    /\ seen_uris \subseteq seen_uris'
    /\ seen_artist_title \subseteq seen_artist_title'
    /\ DOMAIN artist_counts \subseteq DOMAIN artist_counts'
    /\ \A a \in DOMAIN artist_counts : artist_counts[a] <= artist_counts'[a]
    /\ indian_count <= indian_count'
    /\ Extended(hebrew_tracks, hebrew_tracks')
    /\ Extended(global_tracks, global_tracks')

\* C20: in every state of a tier run the accepted-id set is the set of the
\* ids of the two buckets and has as many elements as they have entries, so
\* has the near-duplicate set, the per-artist counts sum to that number, the
\* regional count is the number of accepted regional-flagged tracks; and
\* every one of them only grows.
C20_Bookkeeping == []BooksAgree /\ [][BooksGrow]_vars

\* Three tracks of one artist are accepted, two of them regional-flagged.
C20_Witness ==
    /\ Len(hebrew_tracks) + Len(global_tracks) = 3
    /\ Cardinality(seen_artist_title) = 3
    /\ SumCounts(artist_counts) = 3
    /\ indian_count = 2

====
